---- MODULE Spec2Model ----
(***************************************************************************)
(* A model of the cypress-code-coverage-v8 plugin (src/src/task.ts): the   *)
(* Chrome Debugger Protocol session kept in the module variable cdp, the   *)
(* four coverage tasks (v8CoverageBefore, v8CoverageBeforeEach,            *)
(* v8CoverageAfterEach, v8CoverageAfter), the script filter, the           *)
(* conversion to Istanbul coverage and the coverage directory with its     *)
(* two artifacts per spec file, <spec>_v8.json and <spec>.json.            *)
(*                                                                         *)
(* Text is modelled at the granularity of path segments: a URL is the      *)
(* sequence <<origin, segment, ..., segment>>, a file path and a glob      *)
(* pattern are sequences of segments.  A V8 function coverage is its root  *)
(* range together with the hit count of every offset of that range (the    *)
(* count of the innermost range of the function covering the offset).      *)
(***************************************************************************)
EXTENDS Integers, Sequences, FiniteSets, TLC

\* ------------------------------------------------------------------ bounds

\* snapshots merged into raw artifacts over the whole run
MaxSnapshots == 2
\* protocol sessions established over the whole run; a session is numbered
\* by its rank, so that cdp is also the number of sessions established
MaxSessions == 2
\* browser launches over the whole run
MaxLaunches == 1

\* browser launches in the specification of the session alone
MaxRelaunches == 2

\* ------------------------------------------------------- the environment

SpecNames == {"a", "b"}

\* a value that may be missing is a sequence of at most one element
Some(x) == <<x>>

\* a file that does not exist
Absent == <<>>

Exists(file) == Len(file) = 1

\* JSON.parse(readFileSync(file)) of a file that exists
Content(file) == file[1]

NoSession == 0

AppOrigin == "http://localhost:5173"

ExtOrigin == "chrome-extension://x"

UApp == <<AppOrigin, "assets", "index.js">>

UGone == <<AppOrigin, "assets", "gone.js">>

UNodeModules == <<AppOrigin, "assets", "node_modules", "dep.js">>

UCypress == <<AppOrigin, "__cypress", "assets", "runner.js">>

UMain == <<AppOrigin, "main.js">>

UExt == <<ExtOrigin, "assets", "ext.js">>

Urls == {UApp, UGone, UNodeModules, UCypress, UMain, UExt}

\* the segments a one-segment wildcard matches; any other token is literal
WildSegs(tok) ==
  CASE tok = "*.js" -> {"index.js", "gone.js", "dep.js", "runner.js", "main.js", "ext.js"}
    [] tok = "*.jsx" -> {}
    [] tok = "*.ts" -> {"Util.ts", "App.spec.ts", "Bad.ts", "types.d.ts"}
    [] tok = "*.tsx" -> {"App.tsx", "Unused.tsx"}
    [] tok = "*.spec.ts" -> {"App.spec.ts"}
    [] tok = "*.spec.tsx" -> {}
    [] tok = "*.spec.js" -> {}
    [] tok = "*.spec.jsx" -> {}
    [] tok = "*.d.ts" -> {"types.d.ts"}
    [] tok = "*.md" -> {"notes.md"}
    [] OTHER -> {tok}

\* minimatch / fast-glob on segments: ** swallows any number of segments, a
\* pattern never matches when the path is exhausted before the pattern is
RECURSIVE GlobMatch(_, _)
GlobMatch(p, u) ==
  IF p = <<>> THEN u = <<>>
  ELSE IF u = <<>> THEN FALSE
  ELSE IF Head(p) = "**"
    THEN IF Len(p) = 1 THEN TRUE
         ELSE \E k \in 0..(Len(u) - 1) : GlobMatch(Tail(p), SubSeq(u, k + 1, Len(u)))
  ELSE Head(u) \in WildSegs(Head(p)) /\ GlobMatch(Tail(p), Tail(u))

minimatch(url, pattern) == GlobMatch(pattern, url)

\* String.prototype.startsWith, on segments
startsWith(url, base) ==
  Len(base) <= Len(url) /\ SubSeq(url, 1, Len(base)) = base

\* url.includes("/node_modules/"): the segment, with a slash on both sides
includesNodeModules(url) ==
  \E i \in 2..(Len(url) - 1) : url[i] = "node_modules"

\* the options register resolves when none are passed
DefaultOptions ==
  [ baseUrls |-> {<<AppOrigin>>},
    includeUncovered |-> TRUE,
    include |-> {<<"**", "*.ts">>, <<"**", "*.tsx">>, <<"**", "*.js">>, <<"**", "*.jsx">>},
    exclude |-> {<<"**", "*.spec.ts">>, <<"**", "*.spec.tsx">>, <<"**", "*.spec.jsx">>,
                 <<"**", "*.spec.js">>, <<"**", "*.d.ts">>},
    includeV8Patterns |-> {<<"**", "assets", "**", "*.js">>},
    excludeV8Patterns |-> {<<"**", "__cypress", "**">>, <<"**", "__", "**">>} ]

\* the option sets of the runs explored: the defaults; includeUncovered off
\* with a second application origin; no base URL and other source patterns
RunOptions ==
  { DefaultOptions,
    [DefaultOptions EXCEPT !.includeUncovered = FALSE,
                           !.baseUrls = {<<AppOrigin>>, <<ExtOrigin>>}],
    [DefaultOptions EXCEPT !.baseUrls = {},
                           !.include = {<<"**", "*.ts">>, <<"**", "*.md">>},
                           !.exclude = {<<"**", "Util.ts">>}] }

\* ------------------------------------------------------------ raw coverage

\* function root ranges <<startOffset, endOffset>>: the script and a nested function
WholeScript == <<0, 3>>

Nested == <<1, 2>>

OffsetsOf(root) == root[1]..(root[2] - 1)

\* a function coverage of root range `root` whose offsets all have count n
Flat(root, n) == [o \in OffsetsOf(root) |-> n]

\* the snapshots Profiler.takePreciseCoverage may answer with, before filtering
Snapshot1 ==
  (UApp :> (WholeScript :> (0 :> 1 @@ 1 :> 0 @@ 2 :> 0)))
  @@ (UExt :> (WholeScript :> Flat(WholeScript, 1)))
  @@ (UCypress :> (WholeScript :> Flat(WholeScript, 1)))

Snapshot2 ==
  (UApp :> ((WholeScript :> (0 :> 0 @@ 1 :> 0 @@ 2 :> 1)) @@ (Nested :> Flat(Nested, 2))))
  @@ (UNodeModules :> (WholeScript :> Flat(WholeScript, 1)))
  @@ (UMain :> (WholeScript :> Flat(WholeScript, 1)))
  @@ (UExt :> (Nested :> Flat(Nested, 1)))

Snapshots == <<Snapshot1, Snapshot2>>

EmptyCov == [u \in {} |-> 0]

\* a raw artifact left by an earlier run, made with other options and a build
\* that held another chunk
StaleRaw ==
  (UExt :> (WholeScript :> Flat(WholeScript, 1)))
  @@ (UGone :> (WholeScript :> Flat(WholeScript, 1)))

\* a canonical artifact left by an earlier run
StaleCanon == <<"dist", "assets", "ext.js">> :> [l \in OffsetsOf(WholeScript) |-> 1]

\* Spec names as the parts they are written with, so that the names of their
\* artifacts are computed: "login" and "login_v8" are two spec files,
\* login.cy.ts and login_v8.cy.ts
DirNames == {<<"login">>, <<"login", "_v8">>}

\* path.join(coverageDir, `${testFileName}_v8.json`)
RawFile(testFileName) == testFileName \o <<"_v8", ".json">>

\* path.join(coverageDir, `${testFileName}.json`)
IstanbulFile(testFileName) == testFileName \o <<".json">>

DirFiles == {RawFile(n) : n \in DirNames} \cup {IstanbulFile(n) : n \in DirNames}

\* the JSON text of a process coverage, and of an Istanbul coverage map
RawJson(cov) == [result |-> cov]

MapJson(map) == [coverageMap |-> map]

\* whether a parsed artifact has a result member, as a process coverage has
HasResult(json) == "result" \in DOMAIN json

NoFiles == [f \in DirFiles |-> Absent]

\* ------------------------------------------------------------- variables

VARIABLES
  options,    \* _options, resolved once by register
  plugin,     \* what register was given and what it has installed
  connectable,\* whether the browser accepts a connection on its debugging port
  cdp,        \* the shared session handle: NoSession, or the session last connected
  alive,      \* the sessions whose connection is open
  started,    \* the sessions on which precise coverage is started
  timers,     \* the pending setTimeout calls of tryConnect, by their disconnected flag
  launches,   \* how many before:browser:launch events have been handled
  dirExists,  \* whether coverageDir exists
  raw,        \* per spec name, <spec>_v8.json: Absent or a process coverage
  canon,      \* per spec name, <spec>.json: Absent or an Istanbul coverage map
  inflight,   \* the task that awaits a protocol answer
  last,       \* the last task call that settled: its result and what it reported
  hist,       \* per spec name, the snapshots merged into its raw artifact since it was last absent
  stale,      \* per spec name, whether an artifact of an earlier run may still be held
  taken,      \* snapshots merged so far
  coverageDir,\* the directory by file name, for spec names whose artifact names meet
  probe       \* the last application of the script filter to a single script

vars ==
  <<options, plugin, connectable, cdp, alive, started, timers, launches, dirExists, raw, canon,
    inflight, last, hist, stale, taken, coverageDir, probe>>

\* ------------------------------------------------------- the script filter

\* the filter without its node_modules test
filterV8CoverageResultNoModules(url) ==
  IF ~(\E base \in options.baseUrls : startsWith(url, base)) THEN FALSE
  ELSE LET isIncluded == \E pattern \in options.includeV8Patterns : minimatch(url, pattern)
           isExcluded == \E pattern \in options.excludeV8Patterns : minimatch(url, pattern)
       IN  isIncluded /\ ~isExcluded

\* the filter without its base-URL test
filterV8CoverageResultAnyOrigin(url) ==
  IF includesNodeModules(url) THEN FALSE
  ELSE LET isIncluded == \E pattern \in options.includeV8Patterns : minimatch(url, pattern)
           isExcluded == \E pattern \in options.excludeV8Patterns : minimatch(url, pattern)
       IN  isIncluded /\ ~isExcluded

\* filterV8CoverageResult, of a script record's url
filterV8CoverageResult(url) ==
  IF ~(\E base \in options.baseUrls : startsWith(url, base)) THEN FALSE
  ELSE IF includesNodeModules(url) THEN FALSE
  ELSE LET isIncluded == \E pattern \in options.includeV8Patterns : minimatch(url, pattern)
           isExcluded == \E pattern \in options.excludeV8Patterns : minimatch(url, pattern)
       IN  isIncluded /\ ~isExcluded

\* rawV8Coverage.result.filter(filterV8CoverageResult)
FilterResult(cov) ==
  [u \in {x \in DOMAIN cov : filterV8CoverageResult(x)} |-> cov[u]]

\* ------------------------------------------------- merging raw coverage

\* mergeFunctionCovs of @bcoe/v8-coverage: the range trees of one function are
\* merged by adding the counts offset by offset
mergeFunctionCovs(f, g) == [o \in DOMAIN f |-> f[o] + g[o]]

\* a merge of scripts that keeps the functions of the first
mergeScriptCovsFirst(s, t) == s

\* mergeScriptCovs: functions are grouped by their root range
mergeScriptCovs(s, t) ==
  [r \in (DOMAIN s) \cup (DOMAIN t) |->
     IF r \in DOMAIN s /\ r \in DOMAIN t THEN mergeFunctionCovs(s[r], t[r])
     ELSE IF r \in DOMAIN s THEN s[r] ELSE t[r]]

\* a merge of processes in which the later script replaces the earlier
mergeProcessCovsOverwrite(a, b) ==
  [u \in (DOMAIN a) \cup (DOMAIN b) |-> IF u \in DOMAIN b THEN b[u] ELSE a[u]]

\* mergeProcessCovs([a, b]): scripts are grouped by their url
mergeProcessCovs(a, b) ==
  [u \in (DOMAIN a) \cup (DOMAIN b) |->
     IF u \in DOMAIN a /\ u \in DOMAIN b THEN mergeScriptCovs(a[u], b[u])
     ELSE IF u \in DOMAIN a THEN a[u] ELSE b[u]]

\* ------------------------------------------------ the build and the sources

\* path.resolve(`${buildDir}${new URL(url).pathname}`)
BuiltPath(url) == <<"dist">> \o Tail(url)

\* the built files fs.readFile can read
Readable ==
  { BuiltPath(UApp), BuiltPath(UNodeModules), BuiltPath(UCypress), BuiltPath(UMain),
    BuiltPath(UExt) }

AppTsx == <<"src", "App.tsx">>

UtilTs == <<"src", "Util.ts">>

\* the <built file>.map files that exist and parse, with their sources resolved:
\* for each offset of the built file the original file and location it maps to
SourceMaps ==
  BuiltPath(UApp) :>
    (0 :> [file |-> AppTsx, loc |-> 0] @@ 1 :> [file |-> AppTsx, loc |-> 1]
     @@ 2 :> [file |-> UtilTs, loc |-> 0])

\* the files under srcDir, relative to it
SrcTree ==
  { <<"App.tsx">>, <<"Util.ts">>, <<"Unused.tsx">>, <<"App.spec.ts">>, <<"Bad.ts">>,
    <<"types.d.ts">>, <<"notes.md">> }

\* path.resolve(_options.srcDir, file)
SrcPath(file) == <<"src">> \o file

\* the files whose conversion by v8-to-istanbul throws
Unconvertible == {SrcPath(<<"Bad.ts">>)}

\* the statement locations of a file: one per line
FileLocs(path) ==
  IF path = AppTsx THEN {0, 1}
  ELSE IF path \in Readable THEN OffsetsOf(WholeScript)
  ELSE {0}

\* originalSource.length
FileLength(path) == Cardinality(FileLocs(path))

\* a promise that rejected, against Some(value) for one that resolved
Rejected == <<>>

\* the undefined a function returns after catching an error
Undefined == <<>>

\* getSources: the source map if its file reads and parses, the built file's text
getSources(filePath) ==
  IF filePath \notin Readable THEN Rejected
  ELSE Some([ sourceMap |-> IF filePath \in DOMAIN SourceMaps THEN Some(SourceMaps[filePath])
                                ELSE Undefined,
               mapError |-> filePath \notin DOMAIN SourceMaps ])

\* the order of the functions of a normalized script coverage
SortsAfter(r, q) == r[1] > q[1] \/ (r[1] = q[1] /\ r[2] <= q[2])

\* applyCoverage: a line's count is that of the last range applied that covers
\* it, and 1 when none does
HitAt(functions, o) ==
  LET covering == {r \in DOMAIN functions : r[1] <= o /\ o < r[2]}
  IN  IF covering = {} THEN 1
      ELSE functions[CHOOSE r \in covering : \A q \in covering : SortsAfter(r, q)][o]

\* convertCoverage of a built script: one Istanbul file coverage per source of
\* its map, or of the built file itself without one; Undefined when the
\* converter throws
convertCoverage(filePath, functions, sources) ==
  IF filePath \in Unconvertible THEN Undefined
  ELSE IF sources.sourceMap = Undefined
    THEN Some(filePath :> [l \in FileLocs(filePath) |-> HitAt(functions, l)])
  ELSE LET m == sources.sourceMap[1]
           files == {m[o].file : o \in DOMAIN m}
       IN  Some([f \in files |->
                   [l \in FileLocs(f) |->
                      HitAt(functions, CHOOSE o \in DOMAIN m : m[o].file = f /\ m[o].loc = l)]])

\* CoverageMap.merge: hit counts are added per file and location
CoverageMapMerge(a, b) ==
  [f \in (DOMAIN a) \cup (DOMAIN b) |->
     IF f \in DOMAIN a /\ f \in DOMAIN b THEN [l \in DOMAIN a[f] |-> a[f][l] + b[f][l]]
     ELSE IF f \in DOMAIN a THEN a[f] ELSE b[f]]

EmptyMap == [f \in {} |-> 0]

\* fg(include, {cwd: srcDir, ignore: exclude}), resolved
fg(include, exclude) ==
  { SrcPath(file) : file \in
      { x \in SrcTree : (\E p \in include : GlobMatch(p, x))
                        /\ ~(\E p \in exclude : GlobMatch(p, x)) } }

\* the tree under srcDir does not change during a run: what fg finds, for
\* each pair of include and exclude patterns of the runs explored
Found == [o \in {<<r.include, r.exclude>> : r \in RunOptions} |-> fg(o[1], o[2])]

\* allFiles of getUntestedFileCoverage
AllFiles == Found[<<options.include, options.exclude>>]

\* the untested files taken to be the tested ones
getUntestedFileCoverageInverted(testedFiles) ==
  [file \in {x \in AllFiles : x \in testedFiles} |->
     << [ functionName |-> "(empty-report)",
          ranges |-> << [startOffset |-> 0, endOffset |-> FileLength(file), count |-> 0] >>,
          isBlockCoverage |-> TRUE ] >>]

\* a synthesizer that does not subtract the tested files
getUntestedFileCoverageOfAll(testedFiles) ==
  [file \in AllFiles |->
     << [ functionName |-> "(empty-report)",
          ranges |-> << [startOffset |-> 0, endOffset |-> FileLength(file), count |-> 0] >>,
          isBlockCoverage |-> TRUE ] >>]

\* getUntestedFileCoverage: one made-up function per untested file
getUntestedFileCoverage(testedFiles) ==
  [file \in {x \in AllFiles : x \notin testedFiles} |->
     << [ functionName |-> "(empty-report)",
          ranges |-> << [startOffset |-> 0, endOffset |-> FileLength(file), count |-> 0] >>,
          isBlockCoverage |-> TRUE ] >>]

\* convertCoverage of the made-up function: every line of the file zeroed
convertUntested(absFilePath, functions) ==
  IF absFilePath \in Unconvertible THEN Undefined
  ELSE Some(absFilePath :> [l \in FileLocs(absFilePath) |-> functions[1].ranges[1].count])

\* the first Promise.all of generateCoverage: each script converted and merged
RECURSIVE MergeConverted(_, _, _)
MergeConverted(coverage, urls, coverageMap) ==
  IF urls = {} THEN coverageMap
  ELSE LET url == CHOOSE u \in urls : TRUE
           filePath == BuiltPath(url)
           istanbulCoverage == convertCoverage(filePath, coverage[url], getSources(filePath)[1])
       IN  MergeConverted(coverage, urls \ {url},
             IF istanbulCoverage = Undefined THEN coverageMap
             ELSE CoverageMapMerge(coverageMap, istanbulCoverage[1]))

\* the second Promise.all of generateCoverage: the untested files
RECURSIVE MergeUntested(_, _, _)
MergeUntested(untested, files, coverageMap) ==
  IF files = {} THEN coverageMap
  ELSE LET f == CHOOSE x \in files : TRUE
           istanbulCoverage == convertUntested(f, untested[f])
       IN  MergeUntested(untested, files \ {f},
             IF istanbulCoverage = Undefined THEN coverageMap
             ELSE CoverageMapMerge(coverageMap, istanbulCoverage[1]))

\* generateCoverage: Rejected when the built file of a script cannot be read
generateCoverage(coverage, existingIstanbulCoverage) ==
  IF \E url \in DOMAIN coverage : getSources(BuiltPath(url)) = Rejected THEN Rejected
  ELSE LET coverageMap == MergeConverted(coverage, DOMAIN coverage, existingIstanbulCoverage)
       IN  IF options.includeUncovered = TRUE
           THEN LET untestedCoverage == getUntestedFileCoverage(DOMAIN coverageMap)
                IN  Some(MergeUntested(untestedCoverage, DOMAIN untestedCoverage, coverageMap))
           ELSE Some(coverageMap)

\* ------------------------------------------------------------ initial state

NoCall == [op |-> "none", spec |-> "", session |-> NoSession]

\* what a settled task call reports: its result ("null", "resolved" or
\* "rejected"), whether error() printed the lost-connection warning, the
\* protocol requests it sent, the artifacts v8CoverageBefore deleted, and
\* whether v8CoverageAfter skipped the spec
Report(op, ret, warned, requests, deleted, skipped) ==
  [ op |-> op, ret |-> ret, warned |-> warned, requests |-> requests,
    deleted |-> deleted, skipped |-> skipped ]

NoReport == Report("none", "null", FALSE, <<>>, {}, FALSE)

NoProbe == [url |-> <<>>, accepted |-> FALSE]

\* the states earlier runs may leave the coverage directory in: empty, or
\* holding both artifacts of spec "a" and the canonical artifact of spec "b"
EmptyDir ==
  [ raw |-> [s \in SpecNames |-> Absent], canon |-> [s \in SpecNames |-> Absent] ]

StaleDir ==
  [ raw |-> [s \in SpecNames |-> IF s = "a" THEN Some(StaleRaw) ELSE Absent],
    canon |-> [s \in SpecNames |-> Some(StaleCanon)] ]

\* the runs explored: the options register resolved and the directory it
\* found, empty under every option set and with earlier artifacts under the defaults
InitialRuns ==
  { [options |-> o, dir |-> EmptyDir] : o \in RunOptions }
  \cup { [options |-> DefaultOptions, dir |-> StaleDir] }

\* the values of process.env.CYPRESS_COVERAGE: "unset" for a variable not set
EnvValues == {"true", "false", "unset"}

\* _options before register has resolved it
NoOptions ==
  [ baseUrls |-> {}, includeUncovered |-> FALSE, include |-> {}, exclude |-> {},
    includeV8Patterns |-> {}, excludeV8Patterns |-> {} ]

\* the Cypress configuration object register is passed, of which it may set
\* env.v8CoveragePluginRegistered
PassedConfig == [v8CoveragePluginRegistered |-> FALSE]

\* the process before register is called: nothing listens to "task" or to
\* "before:browser:launch", and register has returned nothing
NotRegistered(env) ==
  [ env |-> env, tasks |-> FALSE, launchHandler |-> FALSE, config |-> PassedConfig,
    returned |-> Absent ]

\* what register leaves when CYPRESS_COVERAGE is "true"
Registered ==
  [ env |-> "true", tasks |-> TRUE, launchHandler |-> TRUE,
    config |-> [v8CoveragePluginRegistered |-> TRUE],
    returned |-> Some([v8CoveragePluginRegistered |-> TRUE]) ]

\* the support file's gate: the hooks that call the tasks are registered when
\* Cypress.env("COVERAGE") is true and the plugin has set its marker
HooksRegistered ==
  plugin.env = "true" /\ plugin.config.v8CoveragePluginRegistered

\* the state once register has run with CYPRESS_COVERAGE set
InitRun(opts, d) ==
  /\ options = opts
  /\ coverageDir = NoFiles
  /\ plugin = Registered
  /\ connectable = FALSE
  /\ cdp = NoSession
  /\ alive = {}
  /\ started = {}
  /\ timers = [plain |-> 0, disc |-> 0]
  /\ launches = 0
  /\ raw = d.raw
  /\ canon = d.canon
  /\ dirExists = \E s \in SpecNames : Exists(d.raw[s]) \/ Exists(d.canon[s])
  /\ stale = [s \in SpecNames |-> Exists(d.raw[s]) \/ Exists(d.canon[s])]
  /\ inflight = NoCall
  /\ last = NoReport
  /\ hist = [s \in SpecNames |-> <<>>]
  /\ taken = 0
  /\ probe = NoProbe

\* the process as Cypress loads its configuration file, register not yet called
InitProcess(env, d) ==
  /\ options = NoOptions
  /\ coverageDir = NoFiles
  /\ plugin = NotRegistered(env)
  /\ connectable = FALSE
  /\ cdp = NoSession
  /\ alive = {}
  /\ started = {}
  /\ timers = [plain |-> 0, disc |-> 0]
  /\ launches = 0
  /\ raw = d.raw
  /\ canon = d.canon
  /\ dirExists = \E s \in SpecNames : Exists(d.raw[s]) \/ Exists(d.canon[s])
  /\ stale = [s \in SpecNames |-> Exists(d.raw[s]) \/ Exists(d.canon[s])]
  /\ inflight = NoCall
  /\ last = NoReport
  /\ hist = [s \in SpecNames |-> <<>>]
  /\ taken = 0
  /\ probe = NoProbe

Init == \E env \in EnvValues, d \in {EmptyDir, StaleDir} : InitProcess(env, d)

\* a register that sets the marker whatever the environment says
registerAlwaysMarks(resolved) ==
  /\ ~Exists(plugin.returned)
  /\ [options |-> resolved, dir |-> [raw |-> raw, canon |-> canon]] \in InitialRuns
  /\ IF plugin.env = "true"
     THEN /\ options' = resolved
          /\ plugin' = Registered
     ELSE /\ options' = options
          /\ plugin' = [plugin EXCEPT !.config = [v8CoveragePluginRegistered |-> TRUE],
                                      !.returned = Some([v8CoveragePluginRegistered |-> TRUE])]
  /\ UNCHANGED <<coverageDir, connectable, cdp, alive, started, timers, launches, dirExists, raw, canon,
                 inflight, last, hist, stale, taken, probe>>

\* register(on, config, options), resolved being the options it resolves what
\* it is passed to: with CYPRESS_COVERAGE "true" it resolves _options, listens
\* to "task" and "before:browser:launch" and sets the marker; it returns config
register(resolved) ==
  /\ ~Exists(plugin.returned)
  /\ [options |-> resolved, dir |-> [raw |-> raw, canon |-> canon]] \in InitialRuns
  /\ IF plugin.env = "true"
     THEN /\ options' = resolved
          /\ plugin' = [plugin EXCEPT !.tasks = TRUE, !.launchHandler = TRUE,
                                      !.config = [v8CoveragePluginRegistered |-> TRUE],
                                      !.returned = Some([v8CoveragePluginRegistered |-> TRUE])]
     ELSE /\ options' = options
          /\ plugin' = [plugin EXCEPT !.returned = Some(plugin.config)]
  /\ UNCHANGED <<coverageDir, connectable, cdp, alive, started, timers, launches, dirExists, raw, canon,
                 inflight, last, hist, stale, taken, probe>>

\* the browser starts to accept connections on its debugging port, or stops
BrowserUp ==
  /\ ~connectable
  /\ connectable' = TRUE
  /\ UNCHANGED <<coverageDir, options, plugin, cdp, alive, started, timers, launches, dirExists, raw,
                 canon, inflight, last, hist, stale, taken, probe>>

BrowserDown ==
  /\ connectable
  /\ connectable' = FALSE
  /\ UNCHANGED <<coverageDir, options, plugin, cdp, alive, started, timers, launches, dirExists, raw,
                 canon, inflight, last, hist, stale, taken, probe>>

\* --------------------------------------------------------------- the session

sessionVars == <<cdp, alive, started, timers, launches>>

dirVars == <<dirExists, raw, canon, hist, stale, taken>>

\* a handler that checks neither the browser nor its arguments
v8CoverageBrowserHandlerNoChecks(isChrome, hasRdpArg) ==
  /\ plugin.launchHandler
  /\ launches' = launches + 1
  /\ timers' = [timers EXCEPT !.plain = @ + 1]
  /\ last' = Report("launch", "launchOptions", FALSE, <<>>, {}, FALSE)
  /\ UNCHANGED <<coverageDir, options, plugin, connectable, cdp, alive, started, dirVars, inflight, probe>>

\* v8CoverageBrowserHandler: a chrome launched with a --remote-debugging-port
\* argument schedules the first tryConnect; any other launch only reports an error
v8CoverageBrowserHandler(isChrome, hasRdpArg) ==
  /\ plugin.launchHandler
  /\ launches' = launches + 1
  /\ timers' = IF isChrome /\ hasRdpArg THEN [timers EXCEPT !.plain = @ + 1] ELSE timers
  /\ last' = IF isChrome /\ hasRdpArg
             THEN Report("launch", "launchOptions", FALSE, <<>>, {}, FALSE)
             ELSE Report("launch", "undefined", TRUE, <<>>, {}, FALSE)
  /\ UNCHANGED <<coverageDir, options, plugin, connectable, cdp, alive, started, dirVars, inflight, probe>>

\* tryConnect(disconnected) whose CDP() call resolves: cdp is the new session
\* and its disconnect handler is registered
tryConnectOk(disconnected) ==
  /\ connectable
  /\ IF disconnected THEN timers.disc > 0 ELSE timers.plain > 0
  /\ cdp < MaxSessions
  /\ cdp' = cdp + 1
  /\ alive' = alive \cup {cdp + 1}
  /\ timers' = IF disconnected THEN [timers EXCEPT !.disc = @ - 1]
               ELSE [timers EXCEPT !.plain = @ - 1]
  /\ last' = Report("tryConnect", "undefined", FALSE, <<>>, {}, FALSE)
  /\ UNCHANGED <<coverageDir, options, plugin, connectable, started, launches, dirVars, inflight, probe>>

\* a catch branch that reports the error and gives up
tryConnectFailNoRetry(disconnected) ==
  /\ ~connectable
  /\ IF disconnected THEN timers.disc > 0 ELSE timers.plain > 0
  /\ timers' = IF disconnected THEN [timers EXCEPT !.disc = @ - 1]
               ELSE [timers EXCEPT !.plain = @ - 1]
  /\ last' = Report("tryConnect", "undefined", ~disconnected, <<>>, {}, FALSE)
  /\ UNCHANGED <<coverageDir, options, plugin, connectable, cdp, alive, started, launches, dirVars, inflight, probe>>

\* a catch branch that reports the error and retries whatever the attempt followed
tryConnectFailAlwaysRetries(disconnected) ==
  /\ ~connectable
  /\ IF disconnected THEN timers.disc > 0 ELSE timers.plain > 0
  /\ timers' = IF disconnected
               THEN [timers EXCEPT !.disc = @ - 1, !.plain = @ + 1]
               ELSE timers
  /\ last' = Report("tryConnect", "undefined", TRUE, <<>>, {}, FALSE)
  /\ UNCHANGED <<coverageDir, options, plugin, connectable, cdp, alive, started, launches, dirVars, inflight, probe>>

\* tryConnect(disconnected) whose CDP() call rejects: a retry is scheduled
\* unless the attempt followed a disconnect
tryConnectFail(disconnected) ==
  /\ ~connectable
  /\ IF disconnected THEN timers.disc > 0 ELSE timers.plain > 0
  /\ timers' = IF disconnected THEN [timers EXCEPT !.disc = @ - 1] ELSE timers
  /\ last' = Report("tryConnect", "undefined", ~disconnected, <<>>, {}, FALSE)
  /\ UNCHANGED <<coverageDir, options, plugin, connectable, cdp, alive, started, launches, dirVars, inflight, probe>>

\* the "disconnect" event of a session: a reconnection is scheduled; cdp is
\* left as it is
Disconnect(s) ==
  /\ s \in alive
  /\ alive' = alive \ {s}
  /\ started' = started \ {s}
  /\ timers' = [timers EXCEPT !.disc = @ + 1]
  /\ UNCHANGED <<coverageDir, options, plugin, connectable, cdp, launches, dirVars, inflight, last, probe>>

\* ----------------------------------------------------------------- the tasks

\* a purge that unlinks the raw artifact only
v8CoverageBeforeKeepsCanonical(testFileName) ==
  /\ plugin.tasks /\ HooksRegistered
  /\ inflight = NoCall
  /\ raw' = [raw EXCEPT ![testFileName] = Absent]
  /\ hist' = [hist EXCEPT ![testFileName] = <<>>]
  /\ stale' = [stale EXCEPT ![testFileName] = FALSE]
  /\ last' = Report("before", "null", FALSE, <<>>,
                    {k \in {"raw"} : Exists(raw[testFileName])}, FALSE)
  /\ UNCHANGED <<coverageDir, options, plugin, connectable, sessionVars, dirExists, canon, taken, inflight, probe>>

\* v8CoverageBefore(testFileName)
v8CoverageBefore(testFileName) ==
  /\ plugin.tasks /\ HooksRegistered
  /\ inflight = NoCall
  /\ raw' = [raw EXCEPT ![testFileName] = Absent]
  /\ canon' = [canon EXCEPT ![testFileName] = Absent]
  /\ hist' = [hist EXCEPT ![testFileName] = <<>>]
  /\ stale' = [stale EXCEPT ![testFileName] = FALSE]
  /\ last' = Report("before", "null", FALSE, <<>>,
                    {k \in {"raw", "canon"} :
                       \/ k = "raw" /\ Exists(raw[testFileName])
                       \/ k = "canon" /\ Exists(canon[testFileName])},
                    FALSE)
  /\ UNCHANGED <<coverageDir, options, plugin, connectable, sessionVars, dirExists, taken, inflight, probe>>

\* a beforeEach that does not test the handle: an unset handle throws
v8CoverageBeforeEachUnguarded ==
  /\ plugin.tasks /\ HooksRegistered
  /\ inflight = NoCall
  /\ started' = IF cdp \in alive THEN started \cup {cdp} ELSE started
  /\ last' = IF cdp # NoSession
             THEN Report("beforeEach", IF cdp \in alive THEN "resolved" ELSE "rejected",
                         FALSE, <<"Profiler.enable", "Profiler.startPreciseCoverage">>,
                         {}, FALSE)
             ELSE Report("beforeEach", "rejected", FALSE, <<>>, {}, FALSE)
  /\ UNCHANGED <<coverageDir, options, plugin, connectable, cdp, alive, timers, launches, dirVars, inflight, probe>>

\* v8CoverageBeforeEach(): with a handle, Profiler.enable and
\* Profiler.startPreciseCoverage are sent on it, and the promise of the two
\* answers is returned; a closed connection fails both
v8CoverageBeforeEach ==
  /\ plugin.tasks /\ HooksRegistered
  /\ inflight = NoCall
  /\ IF cdp # NoSession
     THEN /\ started' = IF cdp \in alive THEN started \cup {cdp} ELSE started
          /\ last' = Report("beforeEach", IF cdp \in alive THEN "resolved" ELSE "rejected",
                            FALSE, <<"Profiler.enable", "Profiler.startPreciseCoverage">>,
                            {}, FALSE)
     ELSE /\ started' = started
          /\ last' = Report("beforeEach", "null", TRUE, <<>>, {}, FALSE)
  /\ UNCHANGED <<coverageDir, options, plugin, connectable, cdp, alive, timers, launches, dirVars, inflight, probe>>

\* v8CoverageAfterEach(testFileName) up to its await: with a handle,
\* Profiler.takePreciseCoverage is sent on it
v8CoverageAfterEach(testFileName) ==
  /\ plugin.tasks /\ HooksRegistered
  /\ inflight = NoCall
  /\ IF cdp # NoSession
     THEN /\ taken < MaxSnapshots
          /\ inflight' = [op |-> "afterEach", spec |-> testFileName, session |-> cdp]
          /\ last' = last
     ELSE /\ inflight' = inflight
          /\ last' = Report("afterEach", "null", TRUE, <<>>, {}, FALSE)
  /\ UNCHANGED <<coverageDir, options, plugin, connectable, sessionVars, dirVars, probe>>

\* v8CoverageAfterEach after its await, the snapshot answered: filter, read,
\* merge, write, then Profiler.stopPreciseCoverage on the handle of that moment
AfterEachAnswered(n) ==
  /\ inflight.op = "afterEach"
  /\ inflight.session \in alive
  /\ inflight.session \in started
  /\ LET testFileName == inflight.spec
         filteredV8Coverage == FilterResult(Snapshots[n])
         previousCoverage == IF Exists(raw[testFileName]) THEN Content(raw[testFileName])
                             ELSE EmptyCov
         merged == mergeProcessCovs(previousCoverage, filteredV8Coverage)
     IN  /\ dirExists' = TRUE
         /\ raw' = [raw EXCEPT ![testFileName] = Some(merged)]
         /\ hist' = [hist EXCEPT ![testFileName] = Append(@, n)]
         /\ taken' = taken + 1
         /\ started' = started \ {cdp}
         /\ last' = Report("afterEach",
                           IF cdp \in alive THEN "resolved" ELSE "rejected", FALSE,
                           <<"Profiler.takePreciseCoverage", "Profiler.stopPreciseCoverage">>,
                           {}, FALSE)
  /\ inflight' = NoCall
  /\ UNCHANGED <<coverageDir, options, plugin, connectable, cdp, alive, timers, launches, canon, stale, probe>>

\* v8CoverageAfterEach after its await, the request failed: the connection is
\* closed, or precise coverage was not started on the session
AfterEachFailed ==
  /\ inflight.op = "afterEach"
  /\ inflight.session \notin alive \/ inflight.session \notin started
  /\ last' = Report("afterEach", "rejected", FALSE,
                    <<"Profiler.takePreciseCoverage">>, {}, FALSE)
  /\ inflight' = NoCall
  /\ UNCHANGED <<coverageDir, options, plugin, connectable, sessionVars, dirVars, probe>>

\* a finalization that does nothing without an open session
afterOutcomeNeedsSession(testFileName, session, connected) ==
  IF ~Exists(raw[testFileName]) \/ session \notin connected
  THEN [ raw |-> raw[testFileName], canon |-> canon[testFileName], ret |-> "null",
         skipped |-> TRUE ]
  ELSE LET istanbulCoverage ==
             generateCoverage(Content(raw[testFileName]),
               IF Exists(canon[testFileName]) THEN Content(canon[testFileName]) ELSE EmptyMap)
       IN  IF istanbulCoverage = Rejected
           THEN [ raw |-> raw[testFileName], canon |-> canon[testFileName],
                  ret |-> "rejected", skipped |-> FALSE ]
           ELSE [ raw |-> Absent, canon |-> Some(istanbulCoverage[1]), ret |-> "null",
                  skipped |-> FALSE ]

\* a finalization that does not read the canonical artifact it overwrites
afterOutcomeOverwrite(testFileName, session, connected) ==
  IF ~Exists(raw[testFileName])
  THEN [ raw |-> raw[testFileName], canon |-> canon[testFileName], ret |-> "null",
         skipped |-> TRUE ]
  ELSE LET istanbulCoverage == generateCoverage(Content(raw[testFileName]), EmptyMap)
       IN  IF istanbulCoverage = Rejected
           THEN [ raw |-> raw[testFileName], canon |-> canon[testFileName],
                  ret |-> "rejected", skipped |-> FALSE ]
           ELSE [ raw |-> Absent, canon |-> Some(istanbulCoverage[1]), ret |-> "null",
                  skipped |-> FALSE ]

\* a finalization that converts an empty coverage when the raw artifact is missing
afterOutcomeNoSkip(testFileName, session, connected) ==
  LET v8Coverage == IF Exists(raw[testFileName]) THEN Content(raw[testFileName]) ELSE EmptyCov
      istanbulCoverage ==
        generateCoverage(v8Coverage,
          IF Exists(canon[testFileName]) THEN Content(canon[testFileName]) ELSE EmptyMap)
  IN  IF istanbulCoverage = Rejected
      THEN [ raw |-> raw[testFileName], canon |-> canon[testFileName],
             ret |-> "rejected", skipped |-> FALSE ]
      ELSE [ raw |-> Absent, canon |-> Some(istanbulCoverage[1]), ret |-> "null",
             skipped |-> FALSE ]

\* v8CoverageAfter(testFileName): the artifacts it leaves and what it reports.
\* The handle and the open sessions are in its scope; it reads neither.
\* a finalization that writes the canonical artifact and leaves the raw one
afterOutcomeKeepsRaw(testFileName, session, connected) ==
  IF ~Exists(raw[testFileName])
  THEN [ raw |-> raw[testFileName], canon |-> canon[testFileName], ret |-> "null",
         skipped |-> TRUE ]
  ELSE LET v8Coverage == Content(raw[testFileName])
           existingIstanbulCoverage ==
             IF Exists(canon[testFileName]) THEN Content(canon[testFileName]) ELSE EmptyMap
           istanbulCoverage == generateCoverage(v8Coverage, existingIstanbulCoverage)
       IN  IF istanbulCoverage = Rejected
           THEN [ raw |-> raw[testFileName], canon |-> canon[testFileName],
                  ret |-> "rejected", skipped |-> FALSE ]
           ELSE [ raw |-> raw[testFileName], canon |-> Some(istanbulCoverage[1]),
                  ret |-> "null", skipped |-> FALSE ]

afterOutcome(testFileName, session, connected) ==
  IF ~Exists(raw[testFileName])
  THEN [ raw |-> raw[testFileName], canon |-> canon[testFileName], ret |-> "null",
         skipped |-> TRUE ]
  ELSE LET v8Coverage == Content(raw[testFileName])
           existingIstanbulCoverage ==
             IF Exists(canon[testFileName]) THEN Content(canon[testFileName]) ELSE EmptyMap
           istanbulCoverage == generateCoverage(v8Coverage, existingIstanbulCoverage)
       IN  IF istanbulCoverage = Rejected
           THEN [ raw |-> raw[testFileName], canon |-> canon[testFileName],
                  ret |-> "rejected", skipped |-> FALSE ]
           ELSE [ raw |-> Absent, canon |-> Some(istanbulCoverage[1]), ret |-> "null",
                  skipped |-> FALSE ]

v8CoverageAfter(testFileName) ==
  /\ plugin.tasks /\ HooksRegistered
  /\ inflight = NoCall
  /\ UNCHANGED <<coverageDir, options, plugin, connectable, sessionVars, dirExists, stale, taken, inflight, probe>>
  /\ \E out \in {afterOutcome(testFileName, cdp, alive)} :
         /\ raw' = [raw EXCEPT ![testFileName] = out.raw]
         /\ canon' = [canon EXCEPT ![testFileName] = out.canon]
         /\ hist' = [hist EXCEPT ![testFileName] = IF Exists(out.raw) THEN @ ELSE <<>>]
         /\ last' = Report("after", out.ret, FALSE, <<>>, {}, out.skipped)

\* the script filter applied to one script record
ApplyFilter(url) ==
  /\ probe' = [url |-> url, accepted |-> filterV8CoverageResult(url)]
  /\ UNCHANGED <<coverageDir, options, plugin, connectable, sessionVars, dirVars, inflight, last>>

Next ==
  \/ \E resolved \in RunOptions : register(resolved)
  \/ BrowserUp
  \/ \E isChrome \in BOOLEAN, hasRdpArg \in BOOLEAN :
       launches < MaxLaunches /\ v8CoverageBrowserHandler(isChrome, hasRdpArg)
  \/ \E disconnected \in BOOLEAN : tryConnectOk(disconnected)
  \/ \E disconnected \in BOOLEAN : tryConnectFail(disconnected)
  \/ \E s \in alive : Disconnect(s)
  \/ \E testFileName \in SpecNames : v8CoverageBefore(testFileName)
  \/ v8CoverageBeforeEach
  \/ \E testFileName \in SpecNames : v8CoverageAfterEach(testFileName)
  \/ \E n \in DOMAIN Snapshots : AfterEachAnswered(n)
  \/ AfterEachFailed
  \/ \E testFileName \in SpecNames : v8CoverageAfter(testFileName)

Spec == Init /\ [][Next]_vars

\* ------------------------------------------------ the directory by file name
\* The tasks as they act on the files of coverageDir, for spec names of which
\* one's raw artifact has the name of the other's canonical artifact. SpecNames
\* has no such pair, and for it raw and canon are the directory. A session is
\* connected throughout, and v8CoverageAfter is taken in its two writes.

InitDir ==
  /\ options = DefaultOptions
  /\ plugin = Registered
  /\ connectable = TRUE
  /\ cdp = 1
  /\ alive = {1}
  /\ started = {}
  /\ timers = [plain |-> 0, disc |-> 0]
  /\ launches = 1
  /\ raw = EmptyDir.raw
  /\ canon = EmptyDir.canon
  /\ dirExists = FALSE
  /\ stale = [s \in SpecNames |-> FALSE]
  /\ inflight = NoCall
  /\ last = NoReport
  /\ hist = [s \in SpecNames |-> <<>>]
  /\ taken = 0
  /\ coverageDir = NoFiles
  /\ probe = NoProbe

\* v8CoverageBefore on the files: both names unlinked if they exist
v8CoverageBeforeDir(testFileName) ==
  /\ plugin.tasks /\ HooksRegistered
  /\ inflight = NoCall
  /\ coverageDir' = [coverageDir EXCEPT ![RawFile(testFileName)] = Absent,
                            ![IstanbulFile(testFileName)] = Absent]
  /\ last' = Report("before", "null", FALSE, <<>>,
                    {f \in {RawFile(testFileName), IstanbulFile(testFileName)} :
                       Exists(coverageDir[f])}, FALSE)
  /\ UNCHANGED <<options, plugin, connectable, sessionVars, dirExists, raw, canon, hist, stale,
                 taken, inflight, probe>>

\* v8CoverageAfterEach on the files, the snapshot answered: mergeProcessCovs
\* throws on a previous artifact that has no result member
v8CoverageAfterEachDir(testFileName, n) ==
  /\ plugin.tasks /\ HooksRegistered
  /\ inflight = NoCall
  /\ cdp \in alive /\ cdp \in started
  /\ taken < MaxSnapshots
  /\ dirExists' = TRUE
  /\ \E previous \in {coverageDir[RawFile(testFileName)]} :
       IF Exists(previous) /\ ~HasResult(Content(previous))
       THEN /\ coverageDir' = coverageDir
            /\ taken' = taken
            /\ started' = started
            /\ last' = Report("afterEach", "rejected", FALSE,
                              <<"Profiler.takePreciseCoverage">>, {}, FALSE)
       ELSE /\ coverageDir' = [coverageDir EXCEPT ![RawFile(testFileName)] =
                           Some(RawJson(mergeProcessCovs(
                                  IF Exists(previous) THEN Content(previous).result
                                  ELSE EmptyCov,
                                  FilterResult(Snapshots[n]))))]
            /\ taken' = taken + 1
            /\ started' = started \ {cdp}
            /\ last' = Report("afterEach", "resolved", FALSE,
                              <<"Profiler.takePreciseCoverage",
                                "Profiler.stopPreciseCoverage">>, {}, FALSE)
  /\ UNCHANGED <<options, plugin, connectable, cdp, alive, timers, launches, raw, canon, hist,
                 stale, inflight, probe>>

\* a finalization that unlinks the raw artifact before it writes the canonical one
v8CoverageAfterUnlinksFirst(testFileName) ==
  /\ plugin.tasks /\ HooksRegistered
  /\ inflight = NoCall
  /\ Exists(coverageDir[RawFile(testFileName)])
  /\ HasResult(Content(coverageDir[RawFile(testFileName)]))
  /\ coverageDir' = [coverageDir EXCEPT ![RawFile(testFileName)] = Absent]
  /\ inflight' = [op |-> "after", spec |-> testFileName, session |-> cdp]
  /\ last' = last
  /\ UNCHANGED <<options, plugin, connectable, sessionVars, dirExists, raw, canon, hist, stale,
                 taken, probe>>

\* v8CoverageAfter on the files up to writeFileSync: null without a raw
\* artifact; it throws on a raw artifact without a result member and on a
\* canonical artifact that is no coverage map; otherwise the canonical
\* artifact is written and the raw one is still there
v8CoverageAfterWrite(testFileName) ==
  /\ plugin.tasks /\ HooksRegistered
  /\ inflight = NoCall
  /\ UNCHANGED <<options, plugin, connectable, sessionVars, dirExists, raw, canon, hist, stale,
                 taken, probe>>
  /\ \E v8Coverage \in {coverageDir[RawFile(testFileName)]},
        existing \in {coverageDir[IstanbulFile(testFileName)]} :
       IF ~Exists(v8Coverage)
       THEN /\ coverageDir' = coverageDir
            /\ inflight' = inflight
            /\ last' = Report("after", "null", FALSE, <<>>, {}, TRUE)
       ELSE IF \/ ~HasResult(Content(v8Coverage))
               \/ Exists(existing) /\ HasResult(Content(existing))
       THEN /\ coverageDir' = coverageDir
            /\ inflight' = inflight
            /\ last' = Report("after", "rejected", FALSE, <<>>, {}, FALSE)
       ELSE \E istanbulCoverage \in
                 {generateCoverage(Content(v8Coverage).result,
                                   IF Exists(existing) THEN Content(existing).coverageMap
                                   ELSE EmptyMap)} :
              IF istanbulCoverage = Rejected
              THEN /\ coverageDir' = coverageDir
                   /\ inflight' = inflight
                   /\ last' = Report("after", "rejected", FALSE, <<>>, {}, FALSE)
              ELSE /\ coverageDir' = [coverageDir EXCEPT ![IstanbulFile(testFileName)] =
                                  Some(MapJson(istanbulCoverage[1]))]
                   /\ inflight' = [op |-> "after", spec |-> testFileName, session |-> cdp]
                   /\ last' = last

\* v8CoverageAfter from unlinkSync on: the raw artifact is unlinked, null returned
v8CoverageAfterUnlink ==
  /\ inflight.op = "after"
  /\ coverageDir' = [coverageDir EXCEPT ![RawFile(inflight.spec)] = Absent]
  /\ inflight' = NoCall
  /\ last' = Report("after", "null", FALSE, <<>>, {}, FALSE)
  /\ UNCHANGED <<options, plugin, connectable, sessionVars, dirExists, raw, canon, hist, stale,
                 taken, probe>>

\* v8CoverageAfter stopped between writeFileSync and unlinkSync: the process
\* is killed, and no task runs after that
v8CoverageAfterAborted ==
  /\ inflight.op = "after"
  /\ inflight' = [inflight EXCEPT !.op = "aborted"]
  /\ last' = Report("after", "aborted", FALSE, <<>>, {}, FALSE)
  /\ UNCHANGED <<options, plugin, connectable, sessionVars, dirExists, raw, canon, hist, stale,
                 taken, coverageDir, probe>>

NextDir ==
  \/ \E testFileName \in DirNames : v8CoverageBeforeDir(testFileName)
  \/ v8CoverageBeforeEach
  \/ \E testFileName \in DirNames, n \in DOMAIN Snapshots :
       v8CoverageAfterEachDir(testFileName, n)
  \/ \E testFileName \in DirNames : v8CoverageAfterWrite(testFileName)
  \/ v8CoverageAfterUnlink
  \/ v8CoverageAfterAborted

SpecDir == InitDir /\ [][NextDir]_vars

\* ------------------------------------------------- the synthesis by itself
\* getUntestedFileCoverage applied to the files of a coverage map, and its
\* records converted and merged into that map, as generateCoverage does

\* the paths a coverage map may hold: the files under srcDir and a built file
TestedCandidates == {SrcPath(file) : file \in SrcTree} \cup {BuiltPath(UExt)}

\* a coverage map with real coverage: every location of its files hit once
CoveredMap(tested) == [f \in tested |-> [l \in FileLocs(f) |-> 1]]

InitUntested == \E opts \in RunOptions : InitRun(opts, EmptyDir)

ApplyUntested(coverageMap) ==
  /\ options.includeUncovered = TRUE
  /\ \E untestedCoverage \in {getUntestedFileCoverage(DOMAIN coverageMap)} :
       probe' = [ coverageMap |-> coverageMap,
                  untestedCoverage |-> untestedCoverage,
                  merged |-> MergeUntested(untestedCoverage, DOMAIN untestedCoverage,
                                           coverageMap) ]
  /\ UNCHANGED <<coverageDir, options, plugin, connectable, sessionVars, dirVars, inflight, last>>

NextUntested == \E tested \in SUBSET TestedCandidates : ApplyUntested(CoveredMap(tested))

SpecUntested == InitUntested /\ [][NextUntested]_vars

\* ------------------------------------------- the session through relaunches
\* The connection alone, register done: the browser is launched up to
\* MaxRelaunches times, and its debugging port comes and goes.

InitSession == InitRun(DefaultOptions, EmptyDir)

\* a timer set by setTimeout(tryConnect, 1000) fires: tryConnect(disconnected) runs
tryConnect(disconnected) ==
  tryConnectOk(disconnected) \/ tryConnectFail(disconnected)

NextSession ==
  \/ \E isChrome \in BOOLEAN, hasRdpArg \in BOOLEAN :
       launches < MaxRelaunches /\ v8CoverageBrowserHandler(isChrome, hasRdpArg)
  \/ BrowserUp
  \/ BrowserDown
  \/ \E disconnected \in BOOLEAN : tryConnectOk(disconnected)
  \/ \E disconnected \in BOOLEAN : tryConnectFail(disconnected)
  \/ \E s \in alive : Disconnect(s)
  \/ v8CoverageBeforeEach

\* a timer that is set fires: one second later the event loop runs its callback
SpecSession ==
  /\ InitSession
  /\ [][NextSession]_vars
  /\ WF_vars(tryConnect(FALSE))
  /\ WF_vars(tryConnect(TRUE))

\* the option sets the script filter is applied under
FilterOptions ==
  { [DefaultOptions EXCEPT !.baseUrls = b, !.includeV8Patterns = i, !.excludeV8Patterns = e] :
      b \in SUBSET {<<AppOrigin>>, <<ExtOrigin>>},
      i \in {{}, DefaultOptions.includeV8Patterns, {<<"**", "*.js">>}},
      e \in {{}, DefaultOptions.excludeV8Patterns, {<<"**", "assets", "**">>}} }

InitFilter == \E opts \in FilterOptions : InitRun(opts, EmptyDir)

NextFilter == \E url \in Urls : ApplyFilter(url)

SpecFilter == InitFilter /\ [][NextFilter]_vars

\* -------------------------------------------------------------- properties

\* the session a task may find, as <<handle, open sessions>>: none ever
\* established, one connected, one lost
SessionStates == {<<NoSession, {}>>, <<1, {1}>>, <<1, {}>>}

\* C1: whatever raw or canonical artifact exists for spec S when before(S) is
\* called, once it has returned neither exists for S, and it returned null
C1_StalePurge ==
  [][\A S \in SpecNames :
       v8CoverageBefore(S) =>
         /\ ~Exists(raw'[S])
         /\ ~Exists(canon'[S])
         /\ last'.op = "before" /\ last'.ret = "null"]_vars

\* before(S) has returned after deleting both artifacts an earlier run left
C1_Witness ==
  /\ last.op = "before"
  /\ last.deleted = {"raw", "canon"}
  /\ last.ret = "null"
  /\ \E S \in SpecNames : ~stale[S] /\ ~Exists(raw[S]) /\ ~Exists(canon[S])

\* C2: while the handle is unset, beforeEach() and afterEach(S) send no
\* protocol request, print the lost-connection warning, return null and leave
\* every artifact as it was
C2_NoSessionNoOp ==
  [][(cdp = NoSession
        /\ (v8CoverageBeforeEach \/ \E S \in SpecNames : v8CoverageAfterEach(S))) =>
       /\ last'.op \in {"beforeEach", "afterEach"}
       /\ last'.ret = "null"
       /\ last'.warned
       /\ last'.requests = <<>>
       /\ inflight' = NoCall
       /\ started' = started
       /\ raw' = raw /\ canon' = canon /\ dirExists' = dirExists]_vars

\* afterEach(S) has warned and returned null, no session ever established,
\* with artifacts on disk that it left alone
C2_Witness ==
  /\ cdp = NoSession
  /\ last.op = "afterEach"
  /\ last.warned
  /\ last.ret = "null"
  /\ last.requests = <<>>
  /\ \E S \in SpecNames : Exists(raw[S])

\* C3: once the session's disconnect has fired and no reconnection has yet
\* succeeded, beforeEach() and afterEach(S) behave as with no session: no
\* protocol request, the warning, null
C3_LostSessionAsAbsent ==
  [][(cdp # NoSession /\ cdp \notin alive
        /\ (v8CoverageBeforeEach \/ \E S \in SpecNames : v8CoverageAfterEach(S))) =>
       /\ last'.op \in {"beforeEach", "afterEach"}
       /\ last'.ret = "null"
       /\ last'.warned
       /\ last'.requests = <<>>
       /\ inflight' = NoCall]_vars

\* C4: what after(S) does, the artifacts it leaves and what it returns, is the
\* same whether no session was ever established, one is connected or one is
\* lost: it converts the raw coverage accumulated, and does nothing when there
\* is none
C4_AfterIgnoresSession ==
  [][\A S \in SpecNames :
       (last'.op = "after" /\ v8CoverageAfter(S)) =>
         /\ last'.skipped = ~Exists(raw[S])
         /\ \A session \in SessionStates :
              afterOutcome(S, session[1], session[2]) =
                [ raw |-> raw'[S], canon |-> canon'[S], ret |-> last'.ret,
                  skipped |-> last'.skipped ]]_vars

\* after(S) has converted raw coverage while the session was lost
C4_Witness ==
  /\ cdp # NoSession
  /\ cdp \notin alive
  /\ last.op = "after"
  /\ ~last.skipped
  /\ last.ret = "null"
  /\ \E S \in SpecNames : ~stale[S] /\ Exists(canon[S]) /\ ~Exists(raw[S])

\* the filtered snapshots the calls of afterEach merged, in their order
FilteredOf(h) == [i \in DOMAIN h |-> FilterResult(Snapshots[h[i]])]

\* the count a process coverage holds for an offset of a function of a script,
\* 0 where it holds none
CountIn(cov, u, r, o) ==
  IF u \in DOMAIN cov THEN (IF r \in DOMAIN cov[u] THEN cov[u][r][o] ELSE 0) ELSE 0

\* the counts of the first k of a sequence of process coverages, added
RECURSIVE Total(_, _, _, _, _)
Total(covs, k, u, r, o) ==
  IF k = 0 THEN 0 ELSE CountIn(covs[k], u, r, o) + Total(covs, k - 1, u, r, o)

\* the scripts and functions any of a sequence of process coverages holds, each
\* offset with the sum of its counts
SumOfSnapshots(covs) ==
  LET urls == UNION {DOMAIN covs[i] : i \in DOMAIN covs}
      roots(u) == UNION {DOMAIN covs[i][u] : i \in {j \in DOMAIN covs : u \in DOMAIN covs[j]}}
  IN  [u \in urls |->
         [r \in roots(u) |-> [o \in OffsetsOf(r) |-> Total(covs, Len(covs), u, r, o)]]]

\* C5: the raw artifact of S, k calls of afterEach(S) after it was absent, is
\* the merge of the k filtered snapshots: absent when k = 0, otherwise every
\* script and function some snapshot holds, each count the sum of the snapshots'
\* counts, so that an offset is covered exactly if some snapshot covered it
C5_RawIsMergeOfSnapshots ==
  \A S \in SpecNames :
    ~stale[S] =>
      IF hist[S] = <<>> THEN ~Exists(raw[S])
      ELSE \A covs \in {FilteredOf(hist[S])} :
             /\ Exists(raw[S])
             /\ Content(raw[S]) = SumOfSnapshots(covs)
             /\ \A u \in Urls, r \in {WholeScript, Nested} : \A o \in OffsetsOf(r) :
                  CountIn(Content(raw[S]), u, r, o) > 0
                    <=> \E i \in DOMAIN covs : CountIn(covs[i], u, r, o) > 0

\* two calls of afterEach(S) have merged snapshots that cover disjoint ranges
\* of the same script
C5_Witness ==
  \E S \in SpecNames :
    /\ ~stale[S]
    /\ hist[S] = <<1, 2>>
    /\ Exists(raw[S])
    /\ UApp \in DOMAIN Content(raw[S])
    /\ Content(raw[S])[UApp][WholeScript] = (0 :> 1 @@ 1 :> 0 @@ 2 :> 1)

\* the snapshots of a history merged one after the other, in the order given
RECURSIVE MergeInOrder(_, _, _)
MergeInOrder(covs, order, k) ==
  IF k = 0 THEN EmptyCov
  ELSE mergeProcessCovs(MergeInOrder(covs, order, k - 1), covs[order[k]])

\* the orders in which n snapshots can be merged, other than the one they came in
OtherOrders(n) ==
  {f \in [1..n -> 1..n] : (\A i, j \in 1..n : f[i] = f[j] => i = j) /\ (\E i \in 1..n : f[i] # i)}

\* C6: the raw artifact of S, and the canonical artifact after(S) makes of it,
\* are those every other order of merging the same snapshots gives
C6_MergeOrderIndependent ==
  \A S \in SpecNames :
    (~stale[S] /\ Len(hist[S]) >= 2) =>
      LET existing == IF Exists(canon[S]) THEN Content(canon[S]) ELSE EmptyMap
      IN  \A covs \in {FilteredOf(hist[S])} :
          \A made \in {generateCoverage(Content(raw[S]), existing)} :
          \A order \in OtherOrders(Len(covs)) :
          \A reordered \in {MergeInOrder(covs, order, Len(covs))} :
            /\ Content(raw[S]) = reordered
            /\ made = generateCoverage(reordered, existing)

\* two different snapshots that share a script have been merged, the second first
C6_Witness ==
  \E S \in SpecNames :
    /\ ~stale[S]
    /\ hist[S] = <<2, 1>>
    /\ Exists(raw[S])
    /\ UApp \in DOMAIN Content(raw[S])
    /\ Nested \in DOMAIN Content(raw[S])[UApp]

\* C7: the filter accepts a script exactly when its URL starts with a base URL,
\* holds no /node_modules/ segment, matches an includeV8 pattern and matches no
\* excludeV8 pattern; with no base URL it accepts none
C7_FilterIff ==
  probe # NoProbe =>
    LET url == probe.url
        fromBase == \E base \in options.baseUrls :
                      /\ Len(base) <= Len(url)
                      /\ \A i \in 1..Len(base) : url[i] = base[i]
        inNodeModules == \E i \in 1..Len(url) :
                           url[i] = "node_modules" /\ 1 < i /\ i < Len(url)
        included == \E pattern \in options.includeV8Patterns : minimatch(url, pattern)
        excluded == \E pattern \in options.excludeV8Patterns : minimatch(url, pattern)
    IN  /\ probe.accepted <=> (fromBase /\ ~inNodeModules /\ included /\ ~excluded)
        /\ options.baseUrls = {} => ~probe.accepted

\* the filter has rejected, for its node_modules segment alone, a script whose
\* URL starts with a base URL, matches an include pattern and no exclude pattern
C7_Witness ==
  /\ probe.url = UNodeModules
  /\ ~probe.accepted
  /\ options.baseUrls = {<<AppOrigin>>}
  /\ options.includeV8Patterns = DefaultOptions.includeV8Patterns
  /\ options.excludeV8Patterns = DefaultOptions.excludeV8Patterns

\* the files the coverage of a script is converted to
SourceFilesOf(url) ==
  IF BuiltPath(url) \in DOMAIN SourceMaps
  THEN {SourceMaps[BuiltPath(url)][o].file : o \in DOMAIN SourceMaps[BuiltPath(url)]}
  ELSE {BuiltPath(url)}

\* C8: over any sequence of hook calls since before(S), no script whose URL
\* starts with no base URL is held by the raw artifact of S, and none of the
\* files it converts to is held by the canonical artifact of S
C8_OnlyBaseUrlScripts ==
  \A S \in SpecNames :
    ~stale[S] =>
      \A u \in Urls :
        ~(\E base \in options.baseUrls : startsWith(u, base)) =>
          /\ Exists(raw[S]) => u \notin DOMAIN Content(raw[S])
          /\ Exists(canon[S]) => SourceFilesOf(u) \cap DOMAIN Content(canon[S]) = {}

\* after(S) has converted snapshots that held a script of another origin
C8_Witness ==
  /\ options.baseUrls = {<<AppOrigin>>}
  /\ last.op = "after"
  /\ ~last.skipped
  /\ \E S \in SpecNames :
       /\ ~stale[S]
       /\ Exists(canon[S])
       /\ AppTsx \in DOMAIN Content(canon[S])
       /\ BuiltPath(UExt) \notin DOMAIN Content(canon[S])

\* C9 as the specification states it: with includeUncovered on, after(S) has
\* run => every file under srcDir that include selects and exclude does not is
\* a key of the canonical map of S
C9_EverySelectedFileIsKey ==
  [][\A S \in SpecNames :
       (options.includeUncovered /\ last'.op = "after" /\ v8CoverageAfter(S)) =>
         /\ Exists(canon'[S])
         /\ AllFiles \subseteq DOMAIN Content(canon'[S])]_vars

\* C9: with includeUncovered on, once after(S) has found a raw artifact and
\* returned null, every file under srcDir that include selects and exclude does
\* not, and that the converter does not fail on, is a key of the canonical map
\* of S, with all its hits zero when no script and no earlier map covered it
C9_SelectedConvertibleFileIsKey ==
  [][\A S \in SpecNames :
       (options.includeUncovered /\ Exists(raw[S]) /\ last'.op = "after"
          /\ last'.ret = "null" /\ v8CoverageAfter(S)) =>
         /\ Exists(canon'[S])
         /\ \A f \in AllFiles \ Unconvertible :
              /\ f \in DOMAIN Content(canon'[S])
              /\ (~(\E u \in DOMAIN Content(raw[S]) : f \in SourceFilesOf(u))
                    /\ ~(Exists(canon[S]) /\ f \in DOMAIN Content(canon[S]))) =>
                   \A l \in DOMAIN Content(canon'[S])[f] : Content(canon'[S])[f][l] = 0]_vars

\* after(S) has left a canonical map with hits on a loaded file, a zeroed
\* entry for a file no script loaded, and no entry for a selected file the
\* converter fails on
C9_Witness ==
  /\ options.includeUncovered
  /\ last.op = "after"
  /\ ~last.skipped
  /\ last.ret = "null"
  /\ \E S \in SpecNames :
       /\ Exists(canon[S])
       /\ AppTsx \in DOMAIN Content(canon[S])
       /\ Content(canon[S])[AppTsx][0] > 0
       /\ SrcPath(<<"Unused.tsx">>) \in DOMAIN Content(canon[S])
       /\ Content(canon[S])[SrcPath(<<"Unused.tsx">>)][0] = 0
       /\ SrcPath(<<"Bad.ts">>) \in AllFiles
       /\ SrcPath(<<"Bad.ts">>) \notin DOMAIN Content(canon[S])

\* the hits a coverage map holds for a location of a file, 0 where it holds none
HitsIn(map, f, l) == IF f \in DOMAIN map THEN map[f][l] ELSE 0

\* C10: once after(S) has found a raw artifact and returned null, the canonical
\* map of S holds, for every file and location, the hits of the map that was
\* there before (none if there was none) plus the hits the raw coverage
\* converts to, and the raw artifact of S is gone
C10_CanonicalIsSumAndRawGone ==
  [][\A S \in SpecNames :
       (Exists(raw[S]) /\ last'.op = "after" /\ last'.ret = "null" /\ v8CoverageAfter(S)) =>
         LET prior == IF Exists(canon[S]) THEN Content(canon[S]) ELSE EmptyMap
         IN  \A converted \in {generateCoverage(Content(raw[S]), EmptyMap)[1]} :
               /\ ~Exists(raw'[S])
               /\ Exists(canon'[S])
               /\ DOMAIN Content(canon'[S]) = (DOMAIN prior) \cup (DOMAIN converted)
               /\ \A f \in DOMAIN Content(canon'[S]) :
                    /\ DOMAIN Content(canon'[S])[f] = FileLocs(f)
                    /\ \A l \in FileLocs(f) :
                         Content(canon'[S])[f][l]
                           = HitsIn(prior, f, l) + HitsIn(converted, f, l)]_vars

\* after(S) has added converted coverage to a canonical map that was there
\* before it, and deleted the raw artifact
C10_Witness ==
  /\ last.op = "after"
  /\ ~last.skipped
  /\ last.ret = "null"
  /\ stale["b"]
  /\ ~Exists(raw["b"])
  /\ Exists(canon["b"])
  /\ AppTsx \in DOMAIN Content(canon["b"])
  /\ BuiltPath(UExt) \in DOMAIN Content(canon["b"])
  /\ Content(canon["b"])[AppTsx][0] > 0

\* C11: when S has no raw artifact, after(S) returns null and leaves the
\* coverage directory as it was: the canonical artifact of S is neither made
\* nor changed, no other artifact is touched, nothing is converted or synthesized
C11_SkippedSpecNoOp ==
  [][\A S \in SpecNames :
       (~Exists(raw[S]) /\ last'.op = "after" /\ v8CoverageAfter(S)) =>
         /\ last'.ret = "null"
         /\ last'.skipped
         /\ raw' = raw
         /\ canon' = canon
         /\ dirExists' = dirExists]_vars

\* after(S) has skipped a spec that has a canonical artifact and no raw one,
\* under options that would synthesize untested files
C11_Witness ==
  /\ last.op = "after"
  /\ last.skipped
  /\ last.ret = "null"
  /\ options.includeUncovered
  /\ dirExists
  /\ ~Exists(raw["a"]) /\ ~Exists(raw["b"])
  /\ \E S \in SpecNames : Exists(canon[S])


\* C12: when CYPRESS_COVERAGE is not "true", register installs nothing: no task
\* and no launch handler is registered, no connection attempt is ever
\* scheduled and no session exists, _options is not resolved, the marker is
\* not set, and the configuration passed in is returned as it was.
C12_EnvironmentGate ==
  (Exists(plugin.returned) /\ plugin.env # "true") =>
     /\ ~plugin.tasks
     /\ ~plugin.launchHandler
     /\ ~HooksRegistered
     /\ launches = 0
     /\ timers = [plain |-> 0, disc |-> 0]
     /\ cdp = NoSession /\ alive = {}
     /\ options = NoOptions
     /\ ~plugin.config.v8CoveragePluginRegistered
     /\ plugin.returned = Some(PassedConfig)
     /\ last = NoReport

\* register has returned with the variable unset, and the browser is up
C12_Witness ==
  /\ Exists(plugin.returned)
  /\ plugin.env = "unset"
  /\ connectable


\* C13: a launch of chrome with a debugging port connects nothing itself: it
\* schedules one attempt, made only when its timer fires. An attempt that
\* fails and did not follow a disconnect reports the error and leaves exactly
\* one further attempt scheduled, however many have failed. If the browser
\* eventually becomes connectable and stays so, a pending first connection
\* eventually yields a session.
C13_InitialConnection ==
  /\ [][/\ \A isChrome \in BOOLEAN, hasRdpArg \in BOOLEAN :
             (last'.op = "launch" /\ v8CoverageBrowserHandler(isChrome, hasRdpArg)) =>
                /\ cdp' = cdp /\ alive' = alive
                /\ (isChrome /\ hasRdpArg) => timers'.plain = timers.plain + 1
        /\ (last'.op = "tryConnect" /\ tryConnectFail(FALSE)) =>
             /\ last'.warned
             /\ timers' = timers /\ timers'.plain > 0
             /\ cdp' = cdp /\ alive' = alive]_vars
  /\ (<>[]connectable) =>
        [](timers.plain > 0 /\ cdp = NoSession => <>(cdp # NoSession /\ cdp \in alive))

\* a first attempt has failed, its error reported, and the retry is pending
C13_Witness ==
  /\ last.op = "tryConnect" /\ last.warned
  /\ launches = 1 /\ timers.plain = 1
  /\ cdp = NoSession /\ alive = {}


\* C14: a launch of a browser that is not chrome, or of a chrome without a
\* --remote-debugging-port argument, reports an error to the operator and
\* returns without raising; it schedules nothing and leaves cdp as it was.
\* While nothing is scheduled and cdp is unset, no step other than a launch of
\* chrome with the argument schedules an attempt or sets cdp, and a
\* beforeEach called then warns, requests nothing and returns null.
C14_InvalidLaunchIsInert ==
  [][/\ \A isChrome \in BOOLEAN, hasRdpArg \in BOOLEAN :
          (~(isChrome /\ hasRdpArg) /\ last'.op = "launch"
             /\ v8CoverageBrowserHandler(isChrome, hasRdpArg)) =>
             /\ last'.warned
             /\ last'.ret = "undefined"
             /\ timers' = timers
             /\ cdp' = cdp /\ alive' = alive
     /\ (timers = [plain |-> 0, disc |-> 0] /\ cdp = NoSession
           /\ ~v8CoverageBrowserHandler(TRUE, TRUE)) =>
          /\ timers' = timers
          /\ cdp' = NoSession /\ alive' = {}
          /\ last'.op = "beforeEach" =>
                last'.warned /\ last'.ret = "null" /\ last'.requests = <<>>]_vars

\* the launches there can be were all of the wrong browser or without the
\* port, and a beforeEach called afterwards has warned and returned null
C14_Witness ==
  /\ launches = MaxRelaunches
  /\ timers = [plain |-> 0, disc |-> 0]
  /\ cdp = NoSession
  /\ connectable
  /\ last.op = "beforeEach" /\ last.warned /\ last.ret = "null"


\* C15: after(S) on a raw artifact completes whatever happens to one of its
\* scripts: it returns null, deletes the raw artifact and writes a canonical
\* artifact that holds the source files of every script whose built file can
\* be read.
C15_BadFileNeverAborts ==
  [][\A S \in SpecNames :
       (Exists(raw[S]) /\ last'.op = "after" /\ v8CoverageAfter(S)) =>
          /\ last'.ret = "null"
          /\ ~Exists(raw'[S])
          /\ Exists(canon'[S])
          /\ \A url \in DOMAIN Content(raw[S]) :
                BuiltPath(url) \in Readable =>
                  SourceFilesOf(url) \subseteq DOMAIN Content(canon'[S])]_vars


\* C16: an attempt scheduled by a disconnect that fails reports no error to
\* the operator and schedules nothing: the attempts pending are one fewer. An
\* attempt that fails reports an error exactly when it did not follow a
\* disconnect, and exactly then is it replaced by a further attempt.
C16_SilentAfterDisconnect ==
  [][\A disconnected \in BOOLEAN :
       (last'.op = "tryConnect" /\ tryConnectFail(disconnected)) =>
          /\ last'.warned = ~disconnected
          /\ timers'.plain + timers'.disc =
               timers.plain + timers.disc - (IF disconnected THEN 1 ELSE 0)
          /\ timers'.plain = timers.plain
          /\ cdp' = cdp /\ alive' = alive]_vars

\* the one attempt that followed the disconnect of the first session has
\* failed: nothing reported, nothing pending, cdp still the lost session
C16_Witness ==
  /\ launches = 1
  /\ cdp = 1 /\ alive = {}
  /\ timers = [plain |-> 0, disc |-> 0]
  /\ last.op = "tryConnect" /\ ~last.warned


\* C17: whenever the session cdp denotes has disconnected, if the browser
\* eventually becomes connectable and stays so, a session is eventually
\* established again and is the one cdp denotes.
C17_ReconnectionLiveness ==
  (<>[]connectable) =>
    []((cdp # NoSession /\ cdp \notin alive /\ cdp < MaxSessions) => <>(cdp \in alive))


\* C18: whatever launches, failures, disconnects and reconnections have
\* happened, at most one attempt is pending, at most one session is connected,
\* and a connected session is the one cdp denotes.
C18_SingleSession ==
  /\ timers.plain + timers.disc <= 1
  /\ Cardinality(alive) <= 1
  /\ alive \subseteq {cdp}


\* C19: afterEach(S) called while capture is not started on the session cdp
\* denotes (the matching beforeEach found no session, and one was connected
\* since) requests nothing from it, warns and returns null, and leaves the
\* raw artifacts as they were.
C19_DegradedStaysDegraded ==
  [][\A S \in SpecNames :
       (cdp # NoSession /\ cdp \in alive /\ cdp \notin started
          /\ v8CoverageAfterEach(S)) =>
          /\ inflight' = NoCall
          /\ last'.op = "afterEach"
          /\ last'.requests = <<>>
          /\ raw' = raw]_vars


\* C20: after(S) called again right after after(S), with no afterEach in
\* between, leaves the canonical and the raw artifact of S as the first call
\* left them: the second call finds no raw artifact and skips, or fails as the
\* first did, so the coverage the first call summed is not summed again.
C20_PromotedOnce ==
  [][\A S \in SpecNames :
       (last'.op = "after" /\ v8CoverageAfter(S)) =>
          \A second \in {afterOutcome(S, cdp, alive)'} :
             /\ second.canon = canon'[S]
             /\ second.raw = raw'[S]
             /\ second.skipped \/ second.ret = "rejected"
             /\ second.skipped = (last'.ret = "null")]_vars

\* both specs had their raw coverage converted, and an after called again has
\* skipped
C20_Witness ==
  /\ last.op = "after" /\ last.skipped
  /\ taken = MaxSnapshots
  /\ \A S \in SpecNames : ~Exists(raw[S]) /\ Exists(canon[S]) /\ ~stale[S]


\* C21: for distinct spec names S and T, no step of before(S), afterEach(S)
\* or after(S) changes or removes an artifact that T has: the raw and the
\* canonical artifact of T that exist are, after the step, what they were.
C21_PerSpecIsolation ==
  [][\A S \in DirNames : \A T \in DirNames \ {S} :
       (\/ v8CoverageBeforeDir(S)
        \/ \E n \in DOMAIN Snapshots : v8CoverageAfterEachDir(S, n)
        \/ v8CoverageAfterWrite(S)
        \/ inflight.op = "after" /\ inflight.spec = S /\ v8CoverageAfterUnlink) =>
          \A f \in {RawFile(T), IstanbulFile(T)} :
             Exists(coverageDir[f]) => coverageDir'[f] = coverageDir[f]]_vars


\* C22: while after(S) is between its two steps, and for good when it is
\* stopped there, the raw artifact of S is still in place and the canonical
\* artifact of S is written, a coverage map that holds the files of every
\* script of the raw artifact. A step of after that removes the raw artifact
\* of S is the second step of after(S): the canonical artifact exists before
\* it and is left as written.
C22_PromotionOrdering ==
  /\ [](inflight.op \in {"after", "aborted"} =>
          \A S \in {inflight.spec} :
             /\ Exists(coverageDir[RawFile(S)])
             /\ HasResult(Content(coverageDir[RawFile(S)]))
             /\ Exists(coverageDir[IstanbulFile(S)])
             /\ ~HasResult(Content(coverageDir[IstanbulFile(S)]))
             /\ \A url \in DOMAIN Content(coverageDir[RawFile(S)]).result :
                   SourceFilesOf(url) \subseteq
                     DOMAIN Content(coverageDir[IstanbulFile(S)]).coverageMap)
  /\ [][\A S \in DirNames :
          (last'.op = "after" /\ Exists(coverageDir[RawFile(S)])
             /\ ~Exists(coverageDir'[RawFile(S)])) =>
             /\ inflight.op = "after" /\ inflight.spec = S
             /\ Exists(coverageDir[IstanbulFile(S)])
             /\ coverageDir'[IstanbulFile(S)] = coverageDir[IstanbulFile(S)]]_vars

\* after(S) was stopped between its two steps: both artifacts are there
C22_Witness ==
  /\ inflight.op = "aborted"
  /\ last.op = "after" /\ last.ret = "aborted"
  /\ Exists(coverageDir[RawFile(inflight.spec)])
  /\ Exists(coverageDir[IstanbulFile(inflight.spec)])


\* the files under srcDir that a pattern of include matches and no pattern of
\* exclude does, by their resolved paths
SelectedFiles ==
  { SrcPath(file) : file \in
      { x \in SrcTree : /\ \E p \in options.include : GlobMatch(p, x)
                        /\ \A p \in options.exclude : ~GlobMatch(p, x) } }

\* C23: given the tested files T, the synthesizer returns a record for exactly
\* the selected files under srcDir that are not in T, one each; every record
\* is one function named (empty-report) with one range, from 0 to the length
\* of the file, counted 0; and the map the records are merged into keeps the
\* hits of every file of T.
C23_UntestedSynthesis ==
  "untestedCoverage" \in DOMAIN probe =>
    LET T == DOMAIN probe.coverageMap
        untested == probe.untestedCoverage
    IN  /\ DOMAIN untested = SelectedFiles \ T
        /\ \A file \in DOMAIN untested :
              /\ Len(untested[file]) = 1
              /\ untested[file][1].functionName = "(empty-report)"
              /\ Len(untested[file][1].ranges) = 1
              /\ untested[file][1].ranges[1] =
                    [startOffset |-> 0, endOffset |-> FileLength(file), count |-> 0]
        /\ \A file \in T :
              /\ file \in DOMAIN probe.merged
              /\ probe.merged[file] = probe.coverageMap[file]
        /\ \A file \in DOMAIN probe.merged \ T :
              \A l \in DOMAIN probe.merged[file] : probe.merged[file][l] = 0

\* a selected file with real coverage got no record and kept its hits, beside
\* a selected file that got one and a tested file outside srcDir
C23_Witness ==
  /\ "untestedCoverage" \in DOMAIN probe
  /\ AppTsx \in DOMAIN probe.coverageMap
  /\ BuiltPath(UExt) \in DOMAIN probe.coverageMap
  /\ AppTsx \in SelectedFiles
  /\ AppTsx \notin DOMAIN probe.untestedCoverage
  /\ probe.merged[AppTsx][0] = 1
  /\ SrcPath(<<"Unused.tsx">>) \in DOMAIN probe.untestedCoverage
  /\ SrcPath(<<"Unused.tsx">>) \in DOMAIN probe.merged

====
